---- MODULE Spec2Model ----
(***************************************************************************)
(* A model of repair/unravel.py: unravel (the per-morphology pass) and     *)
(* unravel_all (the batch driver).                                         *)
(*                                                                         *)
(* Points of the input morphology are lattice points <<x, y, z>>.  The     *)
(* real-valued vectors the code computes are kept exactly:                 *)
(*   - a direction is a record [u |-> lattice vector, l2 |-> n] standing   *)
(*     for the vector of squared length n that points along u (the zero    *)
(*     vector when n = 0);                                                 *)
(*   - an output point is a record [i |-> lattice point, r |-> sequence of *)
(*     <<primitive lattice direction, squared length>>] standing for the   *)
(*     lattice point plus the displacements of r that are not lattice      *)
(*     vectors themselves.                                                 *)
(* The covariance matrix is kept scaled by N^2 (N the number of points of  *)
(* the window), which changes neither its eigenvectors nor the order of    *)
(* its eigenvalues.                                                        *)
(***************************************************************************)
EXTENDS Integers, Sequences, FiniteSets

\* ------------------------------------------------------------------ bounds

MaxSections == 2
MaxPoints == 3
MaxSegments == 3
MaxH == 1
MaxFiles == 3

\* The segment vectors the input sections are built from.
Steps == { <<0, 0, 0>>, <<0, 2, 0>>, <<2, -1, 0>>, <<0, 0, 2>> }

\* --------------------------------------------------------- integer helpers

Abs(n) == IF n < 0 THEN -n ELSE n

Max(a, b) == IF a >= b THEN a ELSE b

Min(a, b) == IF a <= b THEN a ELSE b

Sign(n) == IF n > 0 THEN 1 ELSE IF n < 0 THEN -1 ELSE 0

RECURSIVE Gcd(_, _)
Gcd(a, b) == IF b = 0 THEN Abs(a) ELSE Gcd(b, a % Abs(b))

\* ---------------------------------------------------------- vector helpers

Zero3 == <<0, 0, 0>>

VAdd(a, b) == <<a[1] + b[1], a[2] + b[2], a[3] + b[3]>>

VSub(a, b) == <<a[1] - b[1], a[2] - b[2], a[3] - b[3]>>

VScale(k, a) == <<k * a[1], k * a[2], k * a[3]>>

Dot(a, b) == a[1] * b[1] + a[2] * b[2] + a[3] * b[3]

Gcd3(v) == Gcd(Gcd(v[1], v[2]), v[3])

\* The shortest lattice vector pointing the way v points.
Primitive(v) ==
    IF v = Zero3 THEN Zero3
    ELSE LET g == Gcd3(v) IN <<v[1] \div g, v[2] \div g, v[3] \div g>>

\* ------------------------------------------------- _get_principal_direction

RECURSIVE SumPts(_, _)
SumPts(W, n) == IF n = 0 THEN Zero3 ELSE VAdd(SumPts(W, n - 1), W[n])

\* X -= np.mean(X, axis=0), scaled by N = Len(W)
Centered(W) ==
    LET N == Len(W)
        S == SumPts(W, N)
    IN  [j \in 1..N |-> VSub(VScale(N, W[j]), S)]

RECURSIVE SumProd(_, _, _, _)
SumProd(X, a, b, n) ==
    IF n = 0 THEN 0 ELSE SumProd(X, a, b, n - 1) + X[n][a] * X[n][b]

\* C = np.dot(X.T, X)
Cov(W) ==
    CHOOSE C \in { [a \in 1..3 |-> [b \in 1..3 |-> SumProd(X, a, b, Len(W))]] :
                   X \in {Centered(W)} } : TRUE

\* C with the common factor of its entries taken out (same eigenvectors, same
\* order of the eigenvalues).
Reduced(C) ==
    LET g == Gcd(Gcd(Gcd(C[1][1], C[2][2]), Gcd(C[3][3], C[1][2])),
                 Gcd(C[1][3], C[2][3]))
    IN  IF g = 0 THEN C
        ELSE [a \in 1..3 |-> [b \in 1..3 |-> C[a][b] \div g]]

Trace(M) == M[1][1] + M[2][2] + M[3][3]

Det3(M) ==
      M[1][1] * (M[2][2] * M[3][3] - M[2][3] * M[3][2])
    - M[1][2] * (M[2][1] * M[3][3] - M[2][3] * M[3][1])
    + M[1][3] * (M[2][1] * M[3][2] - M[2][2] * M[3][1])

\* The sum of the principal 2x2 minors of M.
Minors2(M) ==
      (M[1][1] * M[2][2] - M[1][2] * M[2][1])
    + (M[1][1] * M[3][3] - M[1][3] * M[3][1])
    + (M[2][2] * M[3][3] - M[2][3] * M[3][2])

\* l * I - C
Shifted(C, l) ==
    [a \in 1..3 |-> [b \in 1..3 |-> (IF a = b THEN l ELSE 0) - C[a][b]]]

\* The cofactor matrix of a symmetric M: when 0 is a simple eigenvalue of M
\* every nonzero row of it is an eigenvector of M for 0.
Cofactors(M) ==
    << << M[2][2] * M[3][3] - M[2][3] * M[3][2],
          M[2][3] * M[3][1] - M[2][1] * M[3][3],
          M[2][1] * M[3][2] - M[2][2] * M[3][1] >>,
       << M[1][3] * M[3][2] - M[1][2] * M[3][3],
          M[1][1] * M[3][3] - M[1][3] * M[3][1],
          M[1][2] * M[3][1] - M[1][1] * M[3][2] >>,
       << M[1][2] * M[2][3] - M[1][3] * M[2][2],
          M[1][3] * M[2][1] - M[1][1] * M[2][3],
          M[1][1] * M[2][2] - M[1][2] * M[2][1] >> >>

\* l is at least every eigenvalue of C: the eigenvalues of l*I - C, which are
\* real, are all >= 0 exactly when their three symmetric functions are.
AtLeastAll(C, l) ==
    /\ 3 * l - Trace(C) >= 0
    /\ \A M \in {Shifted(C, l)} : Minors2(M) >= 0 /\ Det3(M) >= 0

\* The least integer of lo..hi that is at least every eigenvalue of C, given
\* that hi is.
RECURSIVE LeastAbove(_, _, _)
LeastAbove(C, lo, hi) ==
    IF lo >= hi THEN hi
    ELSE LET mid == (lo + hi) \div 2
         IN  IF AtLeastAll(C, mid) THEN LeastAbove(C, lo, mid)
             ELSE LeastAbove(C, mid + 1, hi)

\* The largest eigenvalue of C (positive semi-definite, so within 0..trace)
\* when it is an integer: the least integer at least every eigenvalue, when
\* it is a root of the characteristic polynomial.
TopEigenvalues(C) ==
    { l \in {LeastAbove(C, 0, Trace(C))} :
        \A M \in {Shifted(C, l)} : Det3(M) = 0 }

IsDiagonal(C) == C[1][2] = 0 /\ C[1][3] = 0 /\ C[2][3] = 0

Axis(k) == [a \in 1..3 |-> IF a = k THEN 1 ELSE 0]

\* w.argmax() of a diagonal C: the first index of the largest entry.
ArgMaxDiag(C) ==
    CHOOSE k \in 1..3 :
        /\ \A a \in 1..3 : C[a][a] <= C[k][k]
        /\ \A a \in 1..(k - 1) : C[a][a] < C[k][k]

\* The eigenvectors np.linalg.eig can return for the largest eigenvalue, as
\* lattice directions.  A diagonal C is returned its own axes, so the column
\* picked is the axis of the first largest entry.  Otherwise the eigenvector
\* of a simple largest eigenvalue is defined up to its sign, and either sign
\* can be returned.  The set is empty when the direction is no lattice
\* direction or the largest eigenvalue of a non-diagonal C is repeated.
\* The nonzero rows of the cofactor matrix of l*I - C.
EigenRows(C, l) ==
    UNION { { A[a] : a \in 1..3 } \ { Zero3 } : A \in {Cofactors(Shifted(C, l))} }

BothSigns(v) == { Primitive(v), VScale(-1, Primitive(v)) }

EigenDirections(C) ==
    IF IsDiagonal(C) THEN { Axis(ArgMaxDiag(C)) }
    ELSE UNION { UNION { BothSigns(CHOOSE x \in rows : TRUE) :
                         rows \in { EigenRows(C, l) } \ { {} } } :
                 l \in TopEigenvalues(C) }

\* The directions for the points W, computed as above.
Computed(W) == UNION { EigenDirections(C) : C \in {Reduced(Cov(W))} }

RECURSIVE Walk(_, _, _, _)
Walk(start, steps, from, n) ==
    IF n = 0 THEN <<start>>
    ELSE LET w == Walk(start, steps, from, n - 1)
         IN  Append(w, VAdd(w[n], steps[from + n]))

\* The steps from each point of W to the next.
Diffs(W) == [j \in 1..(Len(W) - 1) |-> VSub(W[j + 1], W[j])]

StepSeqs == UNION { [1..k -> Steps] : k \in 0..(MaxPoints - 1) }

\* Centring takes the position of the points out, so the directions depend
\* on the steps between the points alone: they are computed once for each
\* sequence of steps the input sections are built from.
DirectionTable ==
    { <<q, Computed(Walk(Zero3, q, 0, Len(q)))>> : q \in StepSeqs }

\* _get_principal_direction(points): v[:, w.argmax()], as the set of the
\* directions it can return.
PrincipalDirections(W) ==
    UNION { IF q \in StepSeqs
            THEN UNION { e[2] : e \in { x \in DirectionTable : x[1] = q } }
            ELSE Computed(W) :
            q \in {Diffs(W)} }

\* ------------------------------------------------------- exact real vectors

\* The vector of squared length l2 along the lattice vector u.
Canon(u, l2) ==
    IF l2 = 0 \/ u = Zero3 THEN [u |-> Zero3, l2 |-> 0]
    ELSE [u |-> Primitive(u), l2 |-> l2]

\* A column of v: a unit vector.
Unit(u) == Canon(u, 1)

\* np.linalg.norm(direction), squared
Norm2(d) == d.l2

\* The direction normalised, the segment's length forgotten.
RescaledUnit(d, s) == IF s = Zero3 THEN Canon(Zero3, 0) ELSE Canon(d.u, 1)

\* direction *= np.linalg.norm(segment) / np.linalg.norm(direction)
Rescaled(d, s) == Canon(d.u, (Norm2(d) * Dot(s, s)) \div Norm2(d))

\* np.sign(np.dot(segment, direction))
DotSign(s, d) == IF d.l2 = 0 THEN 0 ELSE Sign(Dot(s, d.u))

\* direction *= k, for k an integer
Times(d, k) == Canon(VScale(k, d.u), k * k * d.l2)

\* The integers k >= 0 with k * k * n = l2.
Roots(l2, n) == { k \in 0..l2 : k * k * n = l2 }

\* An input point as an output point.
Lift(p) == [i |-> p, r |-> << >>]

\* direction + unravelled_points[window_center - 1]
AddDir(p, d) ==
    IF d.l2 = 0 THEN p
    ELSE LET ks == Roots(d.l2, Dot(d.u, d.u))
         IN  IF ks # {}
             THEN [i |-> VAdd(p.i, VScale(CHOOSE k \in ks : TRUE, d.u)), r |-> p.r]
             ELSE [i |-> p.i, r |-> Append(p.r, <<d.u, d.l2>>)]

\* The squared length of q - p, for q = p or q one displacement after p; -1
\* when q - p is not of that form.
Dist2(p, q) ==
    IF q.r = p.r THEN Dot(VSub(q.i, p.i), VSub(q.i, p.i))
    ELSE IF q.i = p.i /\ Len(q.r) = Len(p.r) + 1
            /\ SubSeq(q.r, 1, Len(p.r)) = p.r
         THEN q.r[Len(q.r)][2]
         ELSE -1

\* ------------------------------------------------------------ the morphology

\* points[window_start:window_end] (0-based, end excluded)
Slice(s, from, to) == SubSeq(s, from + 1, to)

Last(s) == s[Len(s)]

RECURSIVE Ascending(_)
Ascending(S) ==
    IF S = {} THEN << >>
    ELSE LET m == CHOOSE x \in S : \A y \in S : x <= y
         IN  <<m>> \o Ascending(S \ {m})

Children(par, s) == { c \in DOMAIN par : par[c] = s }

\* morph.iter(): depth first, a section before its children, from each root
\* section in turn.
RECURSIVE Visit(_, _)
Visit(par, todo) ==
    IF todo = << >> THEN << >>
    ELSE <<Head(todo)>>
         \o Visit(par, Ascending(Children(par, Head(todo))) \o Tail(todo))

RECURSIVE Reversed(_)
Reversed(s) == IF s = << >> THEN << >> ELSE Append(Reversed(Tail(s)), Head(s))

\* The sections in the opposite order: children first.
IterChildrenFirst(par) == Reversed(Visit(par, Ascending(Children(par, 0))))

Iter(par) == Visit(par, Ascending(Children(par, 0)))

\* section.is_root
IsRoot(par, s) == par[s] = 0

\* ------------------------------------------------------------ the input sets

RECURSIVE SumLens(_, _)
SumLens(lens, n) == IF n = 0 THEN 0 ELSE SumLens(lens, n - 1) + lens[n]

\* Where the root section s starts.
RootStart(s) == <<s, 0, 0>>

\* The sections' points: section s starts where its parent ends (a root
\* section at RootStart(s)) and goes on by its lens[s] steps.
Build(par, lens, steps) ==
    LET P[s \in DOMAIN par] ==
            Walk(IF par[s] = 0 THEN RootStart(s) ELSE Last(P[par[s]]),
                 steps, SumLens(lens, s - 1), lens[s])
    IN  P

Trees(n) == { par \in [1..n -> 0..(n - 1)] : \A s \in 1..n : par[s] < s }

\* ---------------------------------------------------------------- unravel

\* The state of unravel: the input tree (parent, points), the output tree
\* (new_parent, new_points), the two iterators, and the locals.
VARIABLES parent, points, window_half_length, new_parent, new_points,
          iter, new_iter, sec, new_section, written, pc, point_count,
          unravelled_points, window_center, window_start, window_end,
          direction, segment

\* The state of unravel_all: the input directory, the files still to go,
\* the log, the output directory, and how often unravel was called on each
\* file.
VARIABLES listing, files, log, outputs, attempts, bpc

uvars == <<parent, points, window_half_length, new_parent, new_points,
           iter, new_iter, sec, new_section, written, pc, point_count,
           unravelled_points, window_center, window_start, window_end,
           direction, segment>>

bvars == <<listing, files, log, outputs, attempts, bpc>>

vars == <<uvars, bvars>>

\* The window taken symmetric about window_center.
WindowStartSymmetric(center, half) == Max(0, center - half)

\* window_start = max(0, window_center - window_half_length - 1)
WindowStart(center, half) == Max(0, center - half - 1)

\* The window taken one point too far.
WindowEndWide(center, half, count) == Min(count, center + half + 2)

\* window_end = min(point_count, window_center + window_half_length + 1)
WindowEnd(center, half, count) == Min(count, center + half + 1)

\* The windows of a section.
Windows(pts, half) ==
    { Slice(pts, WindowStart(c, half), WindowEnd(c, half, Len(pts))) :
        c \in 1..(Len(pts) - 1) }

\* Every window of the morphology has a principal direction the model
\* represents.
Representable(pts, half) ==
    \A s \in DOMAIN pts :
        \A W \in Windows(pts[s], half) : PrincipalDirections(W) # {}

\* The accumulator started at the section's own first point, root or not.
InitialPointOwn(par, np, s) == np[s][1]

\* The accumulator of a root section started at its last point.
InitialPointLast(par, np, s) ==
    IF IsRoot(par, s) THEN Last(np[s]) ELSE Last(np[par[s]])

\* The first point of the accumulator: new_section.points[0] for a root
\* section, new_section.parent.points[-1] otherwise.
InitialPoint(par, np, s) ==
    IF IsRoot(par, s) THEN np[s][1] ELSE Last(np[par[s]])

\* The loop ended one segment early.
LoopPcShort(center, count) == IF center + 1 < count THEN "estimate" ELSE "assign"

\* for window_center in range(1, point_count): where to go with the next
\* value of window_center.
LoopPc(center, count) == IF center < count THEN "estimate" ELSE "assign"

\* segment = points[window_center] - points[window_center - 1]
Segment(pts, center) == VSub(pts[center + 1], pts[center])

\* direction *= np.sign(np.dot(segment, direction))
Signed(d, s) == Times(d, DotSign(s, d))

\* morphio.mut.Morphology(morph): the same sections, the same points.
Copied(pts) == [s \in DOMAIN pts |-> [j \in 1..Len(pts[s]) |-> Lift(pts[s][j])]]

Init ==
    \E n \in 1..MaxSections, half \in 0..MaxH :
    \E par \in Trees(n), lens \in [1..n -> 0..(MaxPoints - 1)] :
        /\ SumLens(lens, n) <= MaxSegments
        /\ \E steps \in [1..SumLens(lens, n) -> Steps] :
           \E pts \in { Build(par, lens, steps) } :
                /\ Representable(pts, half)
                /\ parent = par
                /\ points = pts
                /\ window_half_length = half
                /\ new_parent = par
                /\ new_points = Copied(pts)
                /\ iter = Iter(par)
                /\ new_iter = Iter(par)
        /\ sec = 0
        /\ new_section = 0
        /\ written = {}
        /\ pc = "section"
        /\ point_count = 0
        /\ unravelled_points = << >>
        /\ window_center = 0
        /\ window_start = 0
        /\ window_end = 0
        /\ direction = Canon(Zero3, 0)
        /\ segment = Zero3
        /\ listing = << >>
        /\ files = << >>
        /\ log = << >>
        /\ outputs = {}
        /\ attempts = << >>
        /\ bpc = "idle"

\* lines 46-52: the next pair of sections, and the accumulator's first point
BeginSection ==
    /\ pc = "section"
    /\ iter # << >> /\ new_iter # << >>
    /\ sec' = Head(iter)
    /\ new_section' = Head(new_iter)
    /\ iter' = Tail(iter)
    /\ new_iter' = Tail(new_iter)
    /\ point_count' = Len(points[sec'])
    /\ unravelled_points' = <<InitialPoint(new_parent, new_points, new_section')>>
    /\ window_center' = 1
    /\ pc' = LoopPc(1, point_count')
    /\ UNCHANGED bvars
    /\ UNCHANGED <<parent, points, window_half_length, new_parent, new_points,
                   written, window_start, window_end, direction, segment>>

\* lines 55-63: the window, its principal direction, the segment, and the
\* direction given the segment's length
Estimate ==
    /\ pc = "estimate"
    /\ window_start' = WindowStart(window_center, window_half_length)
    /\ window_end' = WindowEnd(window_center, window_half_length, point_count)
    /\ segment' = Segment(points[sec], window_center)
    /\ \E d \in PrincipalDirections(Slice(points[sec], window_start', window_end')) :
            direction' = Rescaled(Unit(d), segment')
    /\ pc' = "sign"
    /\ UNCHANGED bvars
    /\ UNCHANGED <<parent, points, window_half_length, new_parent, new_points,
                   iter, new_iter, sec, new_section, written, point_count,
                   unravelled_points, window_center>>

\* lines 66-68: the sign, and the new point
SignAppend ==
    /\ pc = "sign"
    /\ direction' = Signed(direction, segment)
    /\ unravelled_points' =
            Append(unravelled_points,
                   AddDir(unravelled_points[window_center], direction'))
    /\ window_center' = window_center + 1
    /\ pc' = LoopPc(window_center', point_count)
    /\ UNCHANGED bvars
    /\ UNCHANGED <<parent, points, window_half_length, new_parent, new_points,
                   iter, new_iter, sec, new_section, written, point_count,
                   window_start, window_end, segment>>

\* line 70: new_section.points = unravelled_points
Assign ==
    /\ pc = "assign"
    /\ new_points' = [new_points EXCEPT ![new_section] = unravelled_points]
    /\ written' = written \cup {new_section}
    /\ pc' = "section"
    /\ UNCHANGED bvars
    /\ UNCHANGED <<parent, points, window_half_length, new_parent, iter,
                   new_iter, sec, new_section, point_count, unravelled_points,
                   window_center, window_start, window_end, direction, segment>>

\* line 71: return new_morph
Return ==
    /\ pc = "section"
    /\ iter = << >> \/ new_iter = << >>
    /\ pc' = "done"
    /\ UNCHANGED bvars
    /\ UNCHANGED <<parent, points, window_half_length, new_parent, new_points,
                   iter, new_iter, sec, new_section, written, point_count,
                   unravelled_points, window_center, window_start, window_end,
                   direction, segment>>

Next == BeginSection \/ Estimate \/ SignAppend \/ Assign \/ Return

Spec == Init /\ [][Next]_vars

\* ------------------------------------------------------------ unravel_all

\* The extensions of the file names of the input directory.
Exts == { "swc", "txt" }

\* repair.utils.good_ext: the name has the extension of a morphology file.
GoodExt(f) == f.ext = "swc"

\* A file of the input directory: whether unravel succeeds on it (the file
\* can be read and unravelled) and whether the result can be written.
FileKinds == [ext : Exts, readable : BOOLEAN, writable : BOOLEAN]

\* os.listdir(input_dir): the names are the positions in the listing.
Listings ==
    UNION { { [k \in 1..n |-> [name |-> k, ext |-> q[k].ext,
                               readable |-> q[k].readable,
                               writable |-> q[k].writable]] :
              q \in [1..n -> FileKinds] } : n \in 0..MaxFiles }

\* filter(good_ext, ...)
RECURSIVE Filter(_)
Filter(s) ==
    IF s = << >> THEN << >>
    ELSE IF GoodExt(Head(s)) THEN <<Head(s)>> \o Filter(Tail(s))
         ELSE Filter(Tail(s))

\* unravel(inputfilename, window_half_length).write(outfilename): what it
\* ends with.
Outcome(f) ==
    IF ~f.readable THEN "unravel raised"
    ELSE IF ~f.writable THEN "write raised"
    ELSE "written"

\* The exception leaves unravel_all.
AfterFilePropagating(outcome) == IF outcome = "written" THEN "loop" ELSE "raised"

\* try ... except Exception: the loop goes on, whatever the outcome.
AfterFile(outcome) == "loop"

\* L.warning('Unravelling %s failed', f); L.warning(e, exc_info=True)
Warnings(f, outcome) ==
    IF outcome = "written" THEN << >>
    ELSE << [level |-> "warning", file |-> f.name, text |-> "Unravelling failed"],
            [level |-> "warning", file |-> 0, text |-> outcome] >>

InitAll ==
    /\ listing \in Listings
    /\ files = << >>
    /\ log = << >>
    /\ outputs = {}
    /\ attempts = [k \in 1..Len(listing) |-> 0]
    /\ bpc = "list"
    /\ parent = << >>
    /\ points = << >>
    /\ window_half_length = 0
    /\ new_parent = << >>
    /\ new_points = << >>
    /\ iter = << >>
    /\ new_iter = << >>
    /\ sec = 0
    /\ new_section = 0
    /\ written = {}
    /\ pc = "idle"
    /\ point_count = 0
    /\ unravelled_points = << >>
    /\ window_center = 0
    /\ window_start = 0
    /\ window_end = 0
    /\ direction = Canon(Zero3, 0)
    /\ segment = Zero3

\* line 76: files = list(filter(good_ext, os.listdir(input_dir)))
ListFiles ==
    /\ bpc = "list"
    /\ files' = Filter(listing)
    /\ bpc' = "loop"
    /\ UNCHANGED <<listing, log, outputs, attempts>>
    /\ UNCHANGED uvars

\* lines 78-86: one file
ProcessFile ==
    /\ bpc = "loop"
    /\ files # << >>
    /\ LET f == Head(files)
           outcome == Outcome(f)
       IN  /\ log' = log \o << [level |-> "info", file |-> f.name, text |-> ""] >>
                         \o Warnings(f, outcome)
           /\ attempts' = [attempts EXCEPT ![f.name] = @ + 1]
           /\ outputs' = IF outcome = "written" THEN outputs \cup {f.name}
                         ELSE outputs
           /\ bpc' = AfterFile(outcome)
    /\ files' = Tail(files)
    /\ UNCHANGED listing
    /\ UNCHANGED uvars

\* the loop is over: unravel_all returns
ReturnAll ==
    /\ bpc = "loop"
    /\ files = << >>
    /\ bpc' = "returned"
    /\ UNCHANGED <<listing, files, log, outputs, attempts>>
    /\ UNCHANGED uvars

NextAll == ListFiles \/ ProcessFile \/ ReturnAll

SpecAll == InitAll /\ [][NextAll]_vars

\* ----------------------------------------------------------------- claims

\* Whether the output point p differs from the input point q, decided where
\* it can be: p is a lattice point other than q, or a lattice point plus one
\* displacement that is no lattice vector.
Moved(p, q) == (p.r = << >> /\ p.i # q) \/ Len(p.r) = 1

\* The output point p moved by the lattice vector v.
Translated(p, v) == [i |-> VAdd(p.i, v), r |-> p.r]

Sections == DOMAIN points

NonRoots == { s \in Sections : ~IsRoot(parent, s) }

InSection == pc \in {"estimate", "sign", "assign"}

\* C1: when unravel has returned, every output segment is as long as the
\* input segment it replaces.
C1_LengthPreserved ==
    pc = "done" =>
        \A s \in Sections : \A i \in 1..(Len(points[s]) - 1) :
            Dist2(new_points[s][i], new_points[s][i + 1])
                = Dot(Segment(points[s], i), Segment(points[s], i))

\* C2: when unravel has returned, the first point of every non-root section
\* of the output tree is the last point of its parent in the output tree.
C2_Connectivity ==
    pc = "done" =>
        \A s \in DOMAIN new_points :
            ~IsRoot(new_parent, s) =>
                new_points[s][1] = Last(new_points[new_parent[s]])

\* A returned tree with a non-root section whose parent's last point is no
\* longer where the input had it.
C2_Witness ==
    /\ pc = "done"
    /\ \E s \in NonRoots :
            Moved(Last(new_points[parent[s]]), Last(points[parent[s]]))

\* C3: when unravel has returned, the output tree has the sections, the
\* parents and, section by section, the number of points of the input tree.
C3_Topology ==
    pc = "done" =>
        /\ new_parent = parent
        /\ DOMAIN new_points = DOMAIN points
        /\ \A s \in Sections : Len(new_points[s]) = Len(points[s])

\* A returned tree of two sections, one of a single point and one of three,
\* all of them assigned.
C3_Witness ==
    /\ pc = "done"
    /\ written = Sections
    /\ \E s, q \in Sections : Len(points[s]) = 1 /\ Len(points[q]) = 3

\* C4: when unravel has returned, the first point of every root section is
\* the first point of the input section.
C4_RootAnchoring ==
    pc = "done" =>
        \A s \in Sections :
            IsRoot(parent, s) => new_points[s][1] = Lift(points[s][1])

\* A returned tree with a root section whose last point moved, under a
\* window wider than the segment.
C4_Witness ==
    /\ pc = "done"
    /\ window_half_length > 0
    /\ \E s \in Sections :
            /\ IsRoot(parent, s)
            /\ Moved(Last(new_points[s]), Last(points[s]))

\* C5: unravel_all never ends with an exception of a file; when it has
\* returned, unravel was called once on every file with a good extension and
\* on no other, the files that failed are those with a warning in the log,
\* and the output directory holds the files that were unravelled and
\* written.
C5_BatchIsolation ==
    /\ bpc # "raised"
    /\ bpc = "returned" =>
        \A k \in 1..Len(listing) :
            LET f == listing[k]
                failed == GoodExt(f) /\ ~(f.readable /\ f.writable)
            IN  /\ attempts[k] = IF GoodExt(f) THEN 1 ELSE 0
                /\ failed <=> (\E j \in 1..Len(log) :
                                    log[j].level = "warning" /\ log[j].file = k)
                /\ k \in outputs <=> (GoodExt(f) /\ f.readable /\ f.writable)
                /\ k \in outputs => f.readable

\* unravel_all returned after a file that could not be unravelled, a file
\* that could not be written, and a later file that was written.
C5_Witness ==
    /\ bpc = "returned"
    /\ \E i, j, k \in 1..Len(listing) :
            /\ i < k /\ j < k
            /\ GoodExt(listing[i]) /\ ~listing[i].readable
            /\ GoodExt(listing[j]) /\ listing[j].readable /\ ~listing[j].writable
            /\ k \in outputs

\* C6: once the window of segment window_center - 1 -> window_center is
\* taken, it is [max(0, i - H - 1), min(point_count, i + H + 1)), it lies
\* within [0, point_count), and it holds the points i - 1 and i.
C6_WindowClamped ==
    pc = "sign" =>
        LET i == window_center
            H == window_half_length
        IN  /\ point_count >= 2 /\ H >= 0 /\ i \in 1..(point_count - 1)
            /\ window_start = (IF i - H - 1 > 0 THEN i - H - 1 ELSE 0)
            /\ window_end = (IF i + H + 1 < point_count THEN i + H + 1 ELSE point_count)
            /\ 0 <= window_start /\ window_end <= point_count
            /\ window_start <= i - 1 /\ i < window_end
            /\ window_end - window_start >= 2

\* A window cut at both ends of the section.
C6_Witness ==
    /\ pc = "sign"
    /\ window_center - window_half_length - 1 < 0
    /\ window_center + window_half_length + 1 > point_count

\* C7: with window_half_length = 0 the window of segment i - 1 -> i is the
\* two points i - 1 and i of the input section.
C7_HalfLengthZero ==
    (pc = "sign" /\ window_half_length = 0) =>
        /\ window_start = window_center - 1
        /\ window_end = window_center + 1
        /\ Slice(points[sec], window_start, window_end)
            = <<points[sec][window_center], points[sec][window_center + 1]>>

\* The first segment of a section of three points, under half-length 0.
C7_Witness ==
    /\ pc = "sign"
    /\ window_half_length = 0
    /\ point_count = 3
    /\ window_center = 1

\* C8 as stated: when unravel has returned, every section of two points has
\* its two input points.
C8_TwoPointsUnchanged ==
    pc = "done" =>
        \A s \in Sections :
            Len(points[s]) = 2 =>
                new_points[s] = <<Lift(points[s][1]), Lift(points[s][2])>>

\* C8 as amended: when unravel has returned, a section of two points has its
\* input segment, from its first output point; a root section of two points
\* has its two input points.
C8_TwoPointsSegmentKept ==
    pc = "done" =>
        \A s \in Sections :
            Len(points[s]) = 2 =>
                /\ new_points[s][2]
                    = Translated(new_points[s][1], Segment(points[s], 1))
                /\ IsRoot(parent, s) =>
                    new_points[s] = <<Lift(points[s][1]), Lift(points[s][2])>>

\* A returned tree with a non-root section of two distinct points that
\* starts elsewhere than in the input.
C8_Witness ==
    /\ pc = "done"
    /\ \E s \in NonRoots :
            /\ Len(points[s]) = 2
            /\ points[s][1] # points[s][2]
            /\ Moved(new_points[s][1], points[s][1])

\* C9: the sign step leaves a direction whose dot product with the segment
\* is not negative, and leaves the direction as it was when that dot product
\* is zero.
C9_SignResolution ==
    [][pc = "sign" =>
        /\ DotSign(segment, direction') >= 0
        /\ DotSign(segment, direction) = 0 => direction' = direction]_vars

\* C10: while a non-root section is processed its parent has been assigned
\* its unravelled points; the accumulator holds the output points up to
\* window_center - 1, the last of them the one before plus the direction;
\* the segment and the window come from the input points.
C10_ProcessingOrder ==
    /\ (InSection /\ ~IsRoot(parent, sec)) =>
            /\ parent[sec] \in written
            /\ unravelled_points[1] = Last(new_points[parent[sec]])
    /\ InSection => new_section = sec /\ point_count = Len(points[sec])
    /\ pc \in {"estimate", "sign"} => Len(unravelled_points) = window_center
    /\ (InSection /\ pc # "sign" /\ window_center > 1) =>
            Last(unravelled_points)
                = AddDir(unravelled_points[window_center - 1], direction)
    /\ pc = "sign" =>
            /\ segment = VSub(points[sec][window_center + 1],
                              points[sec][window_center])
            /\ \E d \in PrincipalDirections(
                            Slice(points[sec], window_start, window_end)) :
                    direction = Canon(d, Dot(segment, segment))

\* The second point of a non-root section about to be added, its parent's
\* last point moved.
C10_Witness ==
    /\ pc = "sign"
    /\ ~IsRoot(parent, sec)
    /\ Moved(Last(new_points[parent[sec]]), Last(points[parent[sec]]))
    /\ unravelled_points = <<Last(new_points[parent[sec]])>>

====
